---- MODULE Spec2Model ----
(***************************************************************************)
(* Working-set-size estimator of cadvisor (package wss).                   *)
(*                                                                         *)
(* A Wss value holds a cgroup path, a cycle counter and a reset interval.  *)
(* GetStat reads the cgroup's PID list, sums the "Referenced: k kB" fields *)
(* of every PID's smaps file and, every ResetInterval cycles, writes "1"   *)
(* to every PID's clear_refs file.  The file system is part of the state:  *)
(* every file has a status (the errno its open/read/write/close yields)    *)
(* and, for clear_refs, the content last written.                          *)
(*                                                                         *)
(* The machine package's GetTopology and GetClockSpeed and the sysfs       *)
(* package's GetHugePagesInfo read the host: its architecture string, its  *)
(* NUMA node directories and its max-frequency file.                       *)
(***************************************************************************)
EXTENDS Integers, Sequences, FiniteSets, TLC

VARIABLES
    w,          \* instance -> Wss struct (CgroupCPUPath, Cycles, ResetInterval)
    procs,      \* cgroup path -> <path>/cgroup.procs
    smaps,      \* pid -> /proc/<pid>/smaps
    clearRefs,  \* pid -> /proc/<pid>/clear_refs
    built,      \* instance -> the Wss struct as it was constructed
    calls,      \* instance -> number of GetStat calls made on it
    op,         \* the operation that ran last ("none" before the first)
    self,       \* the instance the last operation ran on
    args,       \* the PID list the last operation worked on
    before,     \* the Wss struct of the instance when the last operation began
    pre,        \* clearRefs when the last operation began
    ret,        \* value returned by the last operation
    err,        \* error returned by the last operation
    log,        \* file-system events of the last operation, in order
    host,       \* machineArch and the runtime's GOMAXPROCS and NumCPU
    sysFs,      \* node directories, their cpus, meminfo and hugepages; nodeDir
    freqFile,   \* the file at maxFreqFile
    cpuInfo,    \* the lines of /proc/cpuinfo, GetClockSpeed's argument
    mres        \* name, argument and results of the last machine operation

machineVars == <<host, sysFs, freqFile, cpuInfo, mres>>

vars == <<w, procs, smaps, clearRefs, built, calls, op, self, args, before, pre, ret, err, log, host, sysFs, freqFile, cpuInfo, mres>>

--------------------------------------------------------------------------
(* Bounds *)

MaxPid == 2         \* PIDs are 1..MaxPid
MaxCycles == 2      \* Cycles of a freshly built instance
MaxInterval == 3    \* ResetInterval of a freshly built instance
MaxCalls == 3       \* GetStat calls per instance
MaxKB == 2          \* value of one Referenced field
MaxLines == 2       \* lines of all smaps files together
MaxNodes == 2       \* NUMA node directories
MaxCores == 3       \* core ids of one node
MaxThreads == 2     \* cpus sharing one core id
MaxProcs == 2       \* GOMAXPROCS and NumCPU of the runtime
MaxMHz == 2         \* whole part of a clock speed of /proc/cpuinfo
MaxFreqLen == 2     \* characters of the max-frequency file

(* Program constants *)

KB == 1024          \* bytes per kB, GetStat's conversion factor
KHzPerMHz == 1000   \* GetClockSpeed's conversion factor

--------------------------------------------------------------------------
(* Values *)

PIDs == 1..MaxPid

\* The PIDs of S in ascending order, as the kernel lists a cgroup's members.
RECURSIVE Ascending(_)
Ascending(S) ==
    IF S = {} THEN <<>>
    ELSE LET m == CHOOSE x \in S : \A y \in S : x <= y
         IN <<m>> \o Ascending(S \ {m})

PidLists == {Ascending(S) : S \in SUBSET PIDs}
Paths == {"cgA", "cgB"}

\* An error value; NoErr is Go's nil.  pid is 0 when no PID is involved.
Err(kind, pid) == [kind |-> kind, pid |-> pid]
NoErr == Err("nil", 0)

\* One file-system event: what happened, on which file, of which PID.
Ev(kind, file, pid) == <<kind, file, pid>>

\* One line of an smaps file.  fits = FALSE is a digit string beyond uint64.
Line(name, num, fits) == [name |-> name, num |-> num, fits |-> fits]
Lines == {Line("Referenced", k, TRUE) : k \in 1..MaxKB}
         \cup {Line("Rss", MaxKB, TRUE), Line("Referenced", 0, FALSE)}
Contents == UNION {[1..m -> Lines] : m \in 0..MaxLines}

SmapsFile(status, content) == [status |-> status, content |-> content]
SmapsMissing == SmapsFile("ENOENT", <<>>)
SmapsOne == SmapsFile("ok", <<Line("Referenced", 1, TRUE)>>)

ClearFile(status, content) == [status |-> status, content |-> content]
ClearMissing == ClearFile("ENOENT", "")
ClearStatuses == {"ok", "EACCES", "writeEIO", "closeEIO"}
ClearFiles == {ClearFile(s, "0\n") : s \in ClearStatuses} \cup {ClearMissing}

ProcsFile(status, lines) == [status |-> status, lines |-> lines]
ProcsMissing == ProcsFile("ENOENT", <<>>)
ProcsFiles == {ProcsFile("ok", l) : l \in PidLists}
              \cup {ProcsMissing, ProcsFile("EIO", <<>>)}

\* The architecture strings uname reports, as sequences of characters.
X86_64 == <<"x", "8", "6", "_", "6", "4">>
S390X == <<"s", "3", "9", "0", "x">>
AARCH64 == <<"a", "a", "r", "c", "h", "6", "4">>
ARMV7L == <<"a", "r", "m", "v", "7", "l">>
MIPS64 == <<"m", "i", "p", "s", "6", "4">>
RISCV64 == <<"r", "i", "s", "c", "v", "6", "4">>
PPC64LE == <<"p", "p", "c", "6", "4", "l", "e">>
Archs == {X86_64, S390X, AARCH64, ARMV7L, MIPS64, RISCV64, PPC64LE}

\* A host no machine operation has run on: x86_64, one cpu, no node
\* directories, no max-frequency file.
Host(arch, maxProcs, numCPU) ==
    [machineArch |-> arch, GOMAXPROCS |-> maxProcs, NumCPU |-> numCPU]
SysFs(nodes, huge, dir) == [nodes |-> nodes, hugepages |-> huge, nodeDir |-> dir]
File(status, content) == [status |-> status, content |-> content]
NoFile == File("ENOENT", <<>>)
MRes(name, arg, val, e, list) ==
    [op |-> name, arg |-> arg, val |-> val, err |-> e, list |-> list]
NodeDirs == {"node", "node/node0", "node/node1"}
Dir(exists, entries) == [exists |-> exists, entries |-> entries]
NoDir == Dir(FALSE, {})
NoHugePages == [d \in NodeDirs |-> NoDir]
MachineIdle ==
    /\ host = Host(X86_64, 1, 1)
    /\ sysFs = SysFs(<<>>, NoHugePages, "node")
    /\ freqFile = NoFile
    /\ cpuInfo = <<>>
    /\ mres = MRes("none", <<>>, 0, "nil", <<>>)

Wss(path, cycles, interval) ==
    [CgroupCPUPath |-> path, Cycles |-> cycles, ResetInterval |-> interval]

Range(s) == {s[i] : i \in 1..Len(s)}

--------------------------------------------------------------------------
(* getPids *)

\* getPidsFixedPath is the slip of reading one cgroup's membership file
\* whatever the instance is bound to.
getPidsFixedPath(c, pr) ==
    LET f == pr["cgA"] IN
    IF f.status = "ENOENT"
    THEN [pids |-> <<>>, err |-> Err("ENOENT", 0),
          log |-> <<Ev("openfail", "procs", 0)>>]
    ELSE IF f.status = "EIO"
    THEN [pids |-> <<>>, err |-> Err("scan", 0),
          log |-> <<Ev("open", "procs", 0), Ev("close", "procs", 0)>>]
    ELSE IF Len(f.lines) = 0
    THEN [pids |-> <<>>, err |-> Err("nopids", 0),
          log |-> <<Ev("open", "procs", 0), Ev("close", "procs", 0)>>]
    ELSE [pids |-> f.lines, err |-> NoErr,
          log |-> <<Ev("open", "procs", 0), Ev("close", "procs", 0)>>]

getPids(c, pr) ==
    LET f == pr[c.CgroupCPUPath] IN
    IF f.status = "ENOENT"
    THEN [pids |-> <<>>, err |-> Err("ENOENT", 0),
          log |-> <<Ev("openfail", "procs", 0)>>]
    ELSE IF f.status = "EIO"
    THEN [pids |-> <<>>, err |-> Err("scan", 0),
          log |-> <<Ev("open", "procs", 0), Ev("close", "procs", 0)>>]
    ELSE IF Len(f.lines) = 0
    THEN [pids |-> <<>>, err |-> Err("nopids", 0),
          log |-> <<Ev("open", "procs", 0), Ev("close", "procs", 0)>>]
    ELSE [pids |-> f.lines, err |-> NoErr,
          log |-> <<Ev("open", "procs", 0), Ev("close", "procs", 0)>>]

--------------------------------------------------------------------------
(* getReferenced *)

\* os.IsNotExist on the error of a failed read.  The two variants are the
\* slips of treating no read error, or every read error, as NotFound.
IsNotExistNever(status) == FALSE
IsNotExistAlways(status) == TRUE
IsNotExist(status) == status = "ENOENT"

\* referencedRegexp.FindAllSubmatch: the lines "Referenced: <digits> kB".
\* FindFirstSubmatch is the slip of matching once (FindSubmatch).
FindFirstSubmatch(content) ==
    LET all == SelectSeq(content, LAMBDA l : l.name = "Referenced")
    IN IF Len(all) = 0 THEN all ELSE <<all[1]>>
FindAllSubmatch(content) ==
    SelectSeq(content, LAMBDA l : l.name = "Referenced")

\* The loop over allMatches: ParseUint of each match, added to the total.
RECURSIVE sumMatches(_, _, _, _)
sumMatches(allMatches, j, acc, pid) ==
    IF j > Len(allMatches) THEN [sum |-> acc, err |-> NoErr]
    ELSE IF ~allMatches[j].fits THEN [sum |-> 0, err |-> Err("range", pid)]
    ELSE sumMatches(allMatches, j + 1, acc + allMatches[j].num, pid)

\* The loop over pids.
RECURSIVE referencedLoop(_, _, _, _, _)
referencedLoop(pids, i, acc, lg, sm) ==
    IF i > Len(pids) THEN [val |-> acc, err |-> NoErr, log |-> lg]
    ELSE
      LET pid == pids[i]
          f == sm[pid]
          allMatches == FindAllSubmatch(f.content)
          r == sumMatches(allMatches, 1, acc, pid)
      IN
      IF f.status # "ok"
      THEN IF IsNotExist(f.status)
           THEN referencedLoop(pids, i + 1, acc,
                               Append(lg, Ev("readfail", "smaps", pid)), sm)
           ELSE [val |-> 0, err |-> Err(f.status, pid),
                 log |-> Append(lg, Ev("readfail", "smaps", pid))]
      ELSE IF Len(allMatches) = 0
           THEN referencedLoop(pids, i + 1, acc,
                               Append(lg, Ev("read", "smaps", pid)), sm)
      ELSE IF r.err # NoErr
           THEN [val |-> 0, err |-> r.err,
                 log |-> Append(lg, Ev("read", "smaps", pid))]
      ELSE referencedLoop(pids, i + 1, r.sum,
                          Append(lg, Ev("read", "smaps", pid)), sm)

getReferenced(pids, sm) == referencedLoop(pids, 1, 0, <<>>, sm)

--------------------------------------------------------------------------
(* clearReferenced *)

\* The loop over pids of the reset step.  clearLoopSkipFailures is the slip
\* of treating a failed write or close like a failed open.
RECURSIVE clearLoopSkipFailures(_, _, _, _)
clearLoopSkipFailures(pids, i, cr, lg) ==
    IF i > Len(pids) THEN [err |-> NoErr, fs |-> cr, log |-> lg]
    ELSE
      LET pid == pids[i]
          st == cr[pid].status
          written == [cr EXCEPT ![pid].content = "1\n"]
      IN
      IF st \in {"ENOENT", "EACCES"}
      THEN clearLoopSkipFailures(pids, i + 1, cr,
                     Append(lg, Ev("openfail", "clear_refs", pid)))
      ELSE IF st = "writeEIO"
      THEN clearLoopSkipFailures(pids, i + 1, cr,
                     lg \o <<Ev("open", "clear_refs", pid),
                             Ev("writefail", "clear_refs", pid)>>)
      ELSE clearLoopSkipFailures(pids, i + 1, written,
                     lg \o <<Ev("open", "clear_refs", pid),
                             Ev("write", "clear_refs", pid),
                             Ev("close", "clear_refs", pid)>>)

RECURSIVE clearLoop(_, _, _, _)
clearLoop(pids, i, cr, lg) ==
    IF i > Len(pids) THEN [err |-> NoErr, fs |-> cr, log |-> lg]
    ELSE
      LET pid == pids[i]
          st == cr[pid].status
          written == [cr EXCEPT ![pid].content = "1\n"]
      IN
      IF st \in {"ENOENT", "EACCES"}
      THEN clearLoop(pids, i + 1, cr,
                     Append(lg, Ev("openfail", "clear_refs", pid)))
      ELSE IF st = "writeEIO"
      THEN [err |-> Err("write", pid), fs |-> cr,
            log |-> lg \o <<Ev("open", "clear_refs", pid),
                            Ev("writefail", "clear_refs", pid)>>]
      ELSE IF st = "closeEIO"
      THEN [err |-> Err("close", pid), fs |-> written,
            log |-> lg \o <<Ev("open", "clear_refs", pid),
                            Ev("write", "clear_refs", pid),
                            Ev("closefail", "clear_refs", pid)>>]
      ELSE clearLoop(pids, i + 1, written,
                     lg \o <<Ev("open", "clear_refs", pid),
                             Ev("write", "clear_refs", pid),
                             Ev("close", "clear_refs", pid)>>)

\* clearReferenced, with two slips of it: resetting in every cycle, and
\* taking a zero interval for "never reset" instead of an error.
clearReferencedEveryCycle(c, pids, cr) ==
    IF c.ResetInterval = 0
    THEN [err |-> Err("config", 0), fs |-> cr, log |-> <<>>]
    ELSE clearLoop(pids, 1, cr, <<>>)
clearReferencedNoCheck(c, pids, cr) ==
    IF c.ResetInterval = 0
    THEN [err |-> NoErr, fs |-> cr, log |-> <<>>]
    ELSE IF c.Cycles % c.ResetInterval = 0
    THEN clearLoop(pids, 1, cr, <<>>)
    ELSE [err |-> NoErr, fs |-> cr, log |-> <<>>]
clearReferenced(c, pids, cr) ==
    IF c.ResetInterval = 0
    THEN [err |-> Err("config", 0), fs |-> cr, log |-> <<>>]
    ELSE IF c.Cycles % c.ResetInterval = 0
    THEN clearLoop(pids, 1, cr, <<>>)
    ELSE [err |-> NoErr, fs |-> cr, log |-> <<>>]

--------------------------------------------------------------------------
(* GetStat *)

\* Two slips of GetStat's body: clearing before reading, and testing the
\* error of getReferenced only after clearReferenced has run.
GetStatBodyClearFirst(wv, pr, sm, cr) ==
    LET c == [wv EXCEPT !.Cycles = @ + 1]
        p == getPids(c, pr)
        k == clearReferenced(c, p.pids, cr)
        g == getReferenced(p.pids, sm)
    IN
    IF p.err # NoErr
    THEN [val |-> 0, err |-> p.err, fs |-> cr, log |-> p.log, pids |-> <<>>]
    ELSE IF k.err # NoErr
    THEN [val |-> 0, err |-> k.err, fs |-> k.fs, log |-> p.log \o k.log,
          pids |-> p.pids]
    ELSE IF g.err # NoErr
    THEN [val |-> 0, err |-> g.err, fs |-> k.fs,
          log |-> p.log \o k.log \o g.log, pids |-> p.pids]
    ELSE [val |-> g.val * KB, err |-> NoErr, fs |-> k.fs,
          log |-> p.log \o k.log \o g.log, pids |-> p.pids]
GetStatBodyLateCheck(wv, pr, sm, cr) ==
    LET c == [wv EXCEPT !.Cycles = @ + 1]
        p == getPids(c, pr)
        g == getReferenced(p.pids, sm)
        k == clearReferenced(c, p.pids, cr)
    IN
    IF p.err # NoErr
    THEN [val |-> 0, err |-> p.err, fs |-> cr, log |-> p.log, pids |-> <<>>]
    ELSE IF g.err # NoErr
    THEN [val |-> 0, err |-> g.err, fs |-> k.fs,
          log |-> p.log \o g.log \o k.log, pids |-> p.pids]
    ELSE IF k.err # NoErr
    THEN [val |-> 0, err |-> k.err, fs |-> k.fs,
          log |-> p.log \o g.log \o k.log, pids |-> p.pids]
    ELSE [val |-> g.val * KB, err |-> NoErr, fs |-> k.fs,
          log |-> p.log \o g.log \o k.log, pids |-> p.pids]

\* The body of GetStat on its receiver wv, which Go passes by value: c is
\* the callee's copy after w.Cycles++.
GetStatBody(wv, pr, sm, cr) ==
    LET c == [wv EXCEPT !.Cycles = @ + 1]
        p == getPids(c, pr)
        g == getReferenced(p.pids, sm)
        k == clearReferenced(c, p.pids, cr)
    IN
    IF p.err # NoErr
    THEN [val |-> 0, err |-> p.err, fs |-> cr, log |-> p.log, pids |-> <<>>]
    ELSE IF g.err # NoErr
    THEN [val |-> 0, err |-> g.err, fs |-> cr, log |-> p.log \o g.log,
          pids |-> p.pids]
    ELSE IF k.err # NoErr
    THEN [val |-> 0, err |-> k.err, fs |-> k.fs,
          log |-> p.log \o g.log \o k.log, pids |-> p.pids]
    ELSE [val |-> g.val * KB, err |-> NoErr, fs |-> k.fs,
          log |-> p.log \o g.log \o k.log, pids |-> p.pids]

\* wssProvider.GetStat(): the receiver is a copy, so the instance keeps its
\* fields.
GetStat(i) ==
    /\ calls[i] < MaxCalls
    /\ LET r == GetStatBody(w[i], procs, smaps, clearRefs) IN
       /\ clearRefs' = r.fs
       /\ ret' = r.val
       /\ err' = r.err
       /\ log' = r.log
       /\ args' = r.pids
    /\ w' = w
    /\ calls' = [calls EXCEPT ![i] = @ + 1]
    /\ op' = "GetStat"
    /\ self' = i
    /\ before' = w[i]
    /\ pre' = clearRefs
    /\ UNCHANGED <<procs, smaps, built>>
    /\ UNCHANGED machineVars

\* w.clearReferenced(pids), called directly as the package's tests do.
CallClearReferenced(i, pids) ==
    /\ LET r == clearReferenced(w[i], pids, clearRefs) IN
       /\ clearRefs' = r.fs
       /\ err' = r.err
       /\ log' = r.log
    /\ ret' = 0
    /\ args' = pids
    /\ op' = "clearReferenced"
    /\ self' = i
    /\ before' = w[i]
    /\ pre' = clearRefs
    /\ UNCHANGED <<w, procs, smaps, built, calls>>
    /\ UNCHANGED machineVars

\* clearTestData: the tests' fixture reset, writing "0\n" to the clear_refs
\* files a reset has written.
clearTestData ==
    /\ \E pid \in PIDs : clearRefs[pid].content = "1\n"
    /\ clearRefs' = [pid \in PIDs |->
                        IF clearRefs[pid].content = "1\n"
                        THEN [clearRefs[pid] EXCEPT !.content = "0\n"]
                        ELSE clearRefs[pid]]
    /\ op' = "clearTestData"
    /\ pre' = clearRefs
    /\ ret' = 0
    /\ err' = NoErr
    /\ log' = <<>>
    /\ args' = <<>>
    /\ UNCHANGED <<w, procs, smaps, built, calls, self, before>>
    /\ UNCHANGED machineVars

--------------------------------------------------------------------------
(* Initial states and specifications *)

\* The lines of all that pid owns, in order.
RECURSIVE Owned(_, _, _, _)
Owned(all, owner, pid, i) ==
    IF i > Len(all) THEN <<>>
    ELSE (IF owner[i] = pid THEN <<all[i]>> ELSE <<>>)
         \o Owned(all, owner, pid, i + 1)

\* The smaps files of the processes P when each is missing, unreadable or
\* readable with the one line of SmapsOne.
SmapsFaults ==
    [P \in SUBSET PIDs |->
        [P -> {SmapsOne, SmapsMissing, SmapsFile("EIO", <<>>)}]]

\* The smaps files of the processes P when each is readable with one line.
SmapsPlain == [P \in SUBSET PIDs |-> [P -> {SmapsOne}]]

\* The smaps files of the processes P when each is missing, unreadable or
\* readable, and the readable ones share at most MaxLines lines.
SmapsWorlds ==
    [P \in SUBSET PIDs |->
    UNION {
      UNION {
        {[pid \in P |->
            IF st[pid] = "ok" THEN SmapsFile("ok", Owned(all, owner, pid, 1))
            ELSE SmapsFile(st[pid], <<>>)] :
         owner \in [1..Len(all) -> {pid \in P : st[pid] = "ok"}]} :
        all \in Contents} :
      st \in [P -> {"ok", "ENOENT", "EIO"}]}]

\* One instance "a" bound to cgroup cgA, its fields drawn from cycles and
\* intervals.  The processes are those cgroup.procs lists: their smaps files
\* are drawn from smapsOf[P] for the listed PIDs P, their clear_refs files
\* from clearSet, and no other PID has files.
InitWith(cycles, intervals, smapsOf, clearSet) ==
    /\ w \in {[i \in {"a"} |-> Wss("cgA", cy, ri)] :
                 cy \in cycles, ri \in intervals}
    /\ \E f \in ProcsFiles :
         /\ procs = [p \in Paths |-> IF p = "cgA" THEN f ELSE ProcsMissing]
         /\ \E sm \in smapsOf[Range(f.lines)] :
              smaps = [pid \in PIDs |->
                         IF pid \in DOMAIN sm THEN sm[pid] ELSE SmapsMissing]
         /\ \E cr \in [Range(f.lines) -> clearSet] :
              clearRefs = [pid \in PIDs |->
                             IF pid \in DOMAIN cr THEN cr[pid] ELSE ClearMissing]
    /\ built = w
    /\ calls = [i \in DOMAIN w |-> 0]
    /\ op = "none"
    /\ self = "a"
    /\ args = <<>>
    /\ before = w["a"]
    /\ pre = clearRefs
    /\ ret = 0
    /\ err = NoErr
    /\ log = <<>>
    /\ MachineIdle

\* Sampling with every file-system fault.
Init == InitWith(0..MaxCycles, 0..MaxInterval, SmapsFaults, ClearFiles)

Next ==
    \/ \E i \in DOMAIN w : GetStat(i)
    \/ clearTestData

Spec == Init /\ [][Next]_vars

\* Sampling over smaps files of several lines, with a valid interval and
\* clear_refs files that exist.
InitRead ==
    InitWith({0}, {1, MaxInterval}, SmapsWorlds, {ClearFile("ok", "0\n")})

SpecRead == InitRead /\ [][Next]_vars

\* The package's helpers called directly, as its tests do.
InitUnit == InitWith(0..MaxCycles, 0..1, SmapsPlain, ClearFiles)

NextUnit ==
    \/ \E i \in DOMAIN w, pids \in PidLists : CallClearReferenced(i, pids)
    \/ \E i \in DOMAIN w : GetStat(i)

SpecUnit == InitUnit /\ [][NextUnit]_vars

\* Two instances, "a" bound to cgA and "b" to cgB, whose cgroups list
\* disjoint sets of processes: owner sends each PID to its cgroup or to none.
\* An smaps file is readable or fails, a clear_refs file is writable or not.
InitTwo ==
    /\ w \in {[i \in {"a", "b"} |->
                  IF i = "a" THEN Wss("cgA", 0, na) ELSE Wss("cgB", 0, nb)] :
                 na \in 1..2, nb \in 1..2}
    /\ \E owner \in [PIDs -> Paths \cup {"none"}] :
         /\ procs = [p \in Paths |->
                       ProcsFile("ok", Ascending({pid \in PIDs : owner[pid] = p}))]
         /\ smaps \in [PIDs -> {SmapsOne, SmapsFile("EIO", <<>>), SmapsMissing}]
         /\ clearRefs \in [PIDs -> {ClearFile("ok", "0\n"),
                                    ClearFile("writeEIO", "0\n"), ClearMissing}]
         /\ \A pid \in PIDs :
               /\ owner[pid] = "none" =>
                     smaps[pid] = SmapsMissing /\ clearRefs[pid] = ClearMissing
               /\ owner[pid] # "none" =>
                     smaps[pid] # SmapsMissing /\ clearRefs[pid] # ClearMissing
    /\ built = w
    /\ calls = [i \in DOMAIN w |-> 0]
    /\ op = "none"
    /\ self = "a"
    /\ args = <<>>
    /\ before = w["a"]
    /\ pre = clearRefs
    /\ ret = 0
    /\ err = NoErr
    /\ log = <<>>
    /\ MachineIdle

SpecTwo == InitTwo /\ [][Next]_vars

--------------------------------------------------------------------------
(* Vocabulary of the properties *)

\* The PIDs the cgroup of the last operation's instance lists.
ListedPids ==
    LET f == procs[before.CgroupCPUPath]
    IN IF f.status = "ok" THEN Range(f.lines) ELSE {}

\* The last operation wrote / tried to open the clear_refs file of pid.
Wrote(pid) == Ev("write", "clear_refs", pid) \in Range(log)
NoWrites == clearRefs = pre /\ \A pid \in PIDs : ~Wrote(pid)

\* The reset condition of a call on an instance whose stored counter is c.
ResetDue(c, n) == (c + 1) % n = 0

\* The sum of f over the finite set D.
RECURSIVE SumOver(_, _)
SumOver(f, D) ==
    IF D = {} THEN 0
    ELSE LET x == CHOOSE y \in D : TRUE IN f[x] + SumOver(f, D \ {x})

\* The kB of all "Referenced" fields of a readable smaps file, 0 otherwise.
FileKB(pid) ==
    LET c == smaps[pid].content
    IN IF smaps[pid].status = "ok"
       THEN SumOver([i \in DOMAIN c |->
                       IF c[i].name = "Referenced" THEN c[i].num ELSE 0],
                    DOMAIN c)
       ELSE 0

\* The smaps file of pid makes a call fail: an error other than NotFound, or
\* a Referenced value no uint64 holds.
Unreadable(pid) == smaps[pid].status \notin {"ok", "ENOENT"}
Unparsable(pid) ==
    /\ smaps[pid].status = "ok"
    /\ \E i \in DOMAIN smaps[pid].content :
          /\ smaps[pid].content[i].name = "Referenced"
          /\ ~smaps[pid].content[i].fits

--------------------------------------------------------------------------
(* C1 *)

\* C1: a GetStat call leaves the instance's Cycles one above what it was
\* before the call, so after n calls it is the constructed value plus n.
C1_CounterPersists ==
    op = "GetStat" =>
        /\ w[self].Cycles = before.Cycles + 1
        /\ w[self].Cycles = built[self].Cycles + calls[self]

--------------------------------------------------------------------------
(* C2 *)

\* The files of the last call raise no I/O error: the PID list is read and
\* is not empty, and every smaps and clear_refs file is usable or missing.
NoIOErrors ==
    /\ procs[before.CgroupCPUPath].status = "ok"
    /\ ListedPids # {}
    /\ \A pid \in ListedPids :
          /\ ~Unreadable(pid) /\ ~Unparsable(pid)
          /\ pre[pid].status \in {"ok", "ENOENT"}

\* C2: on an instance built with Cycles = 0 and ResetInterval = N > 0, the
\* k-th GetStat call writes the reset-control files iff k mod N = 0: then
\* every existing one receives 1, otherwise none is written.
C2_ResetEveryNthCall ==
    (/\ op = "GetStat"
     /\ built[self].Cycles = 0
     /\ built[self].ResetInterval > 0
     /\ NoIOErrors)
    => IF calls[self] % built[self].ResetInterval = 0
       THEN \A pid \in ListedPids :
               pre[pid].status = "ok" =>
                   Wrote(pid) /\ clearRefs[pid].content = "1\n"
       ELSE NoWrites

--------------------------------------------------------------------------
(* C3 *)

\* The PID list of the last call's cgroup, in the order of the file.
ListedSeq ==
    LET f == procs[before.CgroupCPUPath]
    IN IF f.status = "ok" THEN f.lines ELSE <<>>

\* The last call reached its reset step: the PID list was read and is not
\* empty, and no listed PID's smaps file made the call fail.
ResetReached ==
    /\ ListedPids # {}
    /\ \A pid \in ListedPids : ~Unreadable(pid) /\ ~Unparsable(pid)

\* C3 as claimed: in one GetStat call with stored counter c and interval
\* N > 0, no reset-control file is modified unless (c + 1) mod N = 0, and
\* when it is, every listed PID whose file exists and is writable receives 1.
C3_ResetIffDue ==
    (op = "GetStat" /\ before.ResetInterval > 0)
    => IF ResetDue(before.Cycles, before.ResetInterval)
       THEN \A pid \in ListedPids :
               pre[pid].status = "ok" =>
                   Wrote(pid) /\ clearRefs[pid].content = "1\n"
       ELSE NoWrites

\* C3 as amended: files are written only when (c + 1) mod N = 0 and the call
\* reached its reset step; then each listed PID whose file opens and takes the
\* write receives 1, in list order up to and including the first PID whose
\* write or close fails, and the files of the PIDs after it stay as they were.
C3_ResetWithinCall ==
    (op = "GetStat" /\ before.ResetInterval > 0)
    => IF ResetDue(before.Cycles, before.ResetInterval) /\ ResetReached
       THEN \A i \in 1..Len(ListedSeq) :
               LET pid == ListedSeq[i]
                   stopped == \E j \in 1..(i - 1) :
                       pre[ListedSeq[j]].status \in {"writeEIO", "closeEIO"}
               IN IF stopped
                  THEN clearRefs[pid] = pre[pid] /\ ~Wrote(pid)
                  ELSE pre[pid].status \in {"ok", "closeEIO"} =>
                           Wrote(pid) /\ clearRefs[pid].content = "1\n"
       ELSE NoWrites

\* A call on Cycles = 2, ResetInterval = 3 that reset two PIDs.
C3_Witness ==
    /\ op = "GetStat"
    /\ before.Cycles = 2 /\ before.ResetInterval = 3
    /\ Len(ListedSeq) = 2
    /\ \A pid \in ListedPids :
          pre[pid].content = "0\n" /\ Wrote(pid) /\ clearRefs[pid].content = "1\n"
    /\ err = NoErr

--------------------------------------------------------------------------
(* C4 *)

\* C4: a successful GetStat with ResetInterval > 0 returns 1024 times the
\* sum, over every listed PID with a readable smaps file, of every
\* Referenced value in that file.
C4_ReferencedSum ==
    (op = "GetStat" /\ err = NoErr /\ before.ResetInterval > 0)
    => ret = KB * SumOver([pid \in ListedPids |-> FileKB(pid)], ListedPids)

\* A successful call over two PIDs that both contribute.
C4_Witness ==
    /\ op = "GetStat" /\ err = NoErr
    /\ Cardinality(ListedPids) = 2
    /\ \A pid \in ListedPids : FileKB(pid) > 0
    /\ ret > KB

--------------------------------------------------------------------------
(* C5 *)

\* C5: when cgroup.procs is read but lists no PID, GetStat returns 0 with no
\* error and writes no reset-control file.
C5_EmptyListIsZero ==
    (/\ op = "GetStat"
     /\ procs[before.CgroupCPUPath].status = "ok"
     /\ procs[before.CgroupCPUPath].lines = <<>>)
    => err = NoErr /\ ret = 0 /\ NoWrites

--------------------------------------------------------------------------
(* C6 *)

\* The listed PIDs whose smaps file is readable.
Readable == {pid \in ListedPids : smaps[pid].status = "ok"}

\* C6: when every listed PID's smaps file is readable or missing (and the
\* reset step cannot fail), GetStat raises no error and returns the sum over
\* exactly the readable PIDs: 0 when none is readable or none has a
\* Referenced field.
C6_MissingSmapsSkipped ==
    (/\ op = "GetStat"
     /\ before.ResetInterval > 0
     /\ ResetReached
     /\ \A pid \in ListedPids : pre[pid].status \notin {"writeEIO", "closeEIO"})
    => /\ err = NoErr
       /\ ret = KB * SumOver([pid \in Readable |-> FileKB(pid)], Readable)
       /\ (\A pid \in Readable : FindAllSubmatch(smaps[pid].content) = <<>>)
              => ret = 0

\* A call over one PID without smaps file and one with Referenced fields.
C6_Witness ==
    /\ op = "GetStat" /\ err = NoErr
    /\ \E pid \in ListedPids : smaps[pid].status = "ENOENT"
    /\ \E pid \in ListedPids : FileKB(pid) > 0
    /\ ret > 0

--------------------------------------------------------------------------
(* C7 *)

\* The positions of the PID list whose smaps file makes the call fail.
FatalAt == {i \in 1..Len(ListedSeq) :
               Unreadable(ListedSeq[i]) \/ Unparsable(ListedSeq[i])}

\* C7: if a listed PID's smaps file fails to read with an error other than
\* NotFound, GetStat returns an error and the value 0, and when that read is
\* the first to fail the error is that read's error.
C7_ReadErrorAborts ==
    (op = "GetStat" /\ \E pid \in ListedPids : Unreadable(pid))
    => /\ err # NoErr
       /\ ret = 0
       /\ LET i == CHOOSE k \in FatalAt : \A j \in FatalAt : k <= j
              pid == ListedSeq[i]
          IN Unreadable(pid) => err = Err(smaps[pid].status, pid)

\* A call that had summed the first PID when the second PID's read failed.
C7_Witness ==
    /\ op = "GetStat"
    /\ Len(ListedSeq) = 2
    /\ FileKB(ListedSeq[1]) > 0
    /\ Unreadable(ListedSeq[2])
    /\ err = Err("EIO", ListedSeq[2])
    /\ ret = 0

--------------------------------------------------------------------------
(* C8 *)

\* C8: in the reset step only a missing reset-control file is skipped; when
\* the file of a listed PID exists and cannot be opened or written, the call
\* returns an error.
C8_OnlyNotFoundTolerated ==
    (/\ op = "GetStat"
     /\ before.ResetInterval > 0
     /\ ResetDue(before.Cycles, before.ResetInterval)
     /\ ResetReached
     /\ \E pid \in ListedPids : pre[pid].status \notin {"ok", "ENOENT"})
    => err # NoErr

--------------------------------------------------------------------------
(* C9 *)

\* C9: no GetStat call runs on an instance whose ResetInterval is not
\* positive: the configuration error is never returned by GetStat and no
\* file is opened or read with such an interval.
C9_IntervalValidatedAtConstruction ==
    op = "GetStat" =>
        /\ err.kind # "config"
        /\ log # <<>> => before.ResetInterval > 0

--------------------------------------------------------------------------
(* C10 *)

\* C10: with ResetInterval = 0, clearReferenced returns the configuration
\* error whatever Cycles and the PID list are and writes no reset-control
\* file, and GetStat returns an error.
C10_ZeroIntervalRejected ==
    /\ (op = "clearReferenced" /\ before.ResetInterval = 0)
           => err = Err("config", 0) /\ NoWrites
    /\ (op = "GetStat" /\ before.ResetInterval = 0)
           => err # NoErr /\ NoWrites

\* clearReferenced called with ResetInterval = 0 on a PID whose reset-control
\* file is writable.
C10_Witness ==
    /\ op = "clearReferenced"
    /\ before.ResetInterval = 0
    /\ args # <<>>
    /\ \A i \in 1..Len(args) : pre[args[i]].status = "ok"
    /\ err.kind = "config"

--------------------------------------------------------------------------
(* C11 *)

\* The handle that event i of the log opened is released by a later event:
\* a close of the same file, whether or not the close reports an error.
ReleasedLater(i) ==
    \E j \in (i + 1)..Len(log) :
        /\ log[j][1] \in {"close", "closefail"}
        /\ log[j][2] = log[i][2]
        /\ log[j][3] = log[i][3]

\* C11: when GetStat returns, every file handle it opened (cgroup.procs,
\* clear_refs) has been closed, on the error paths too.
C11_HandlesReleased ==
    op = "GetStat" =>
        \A i \in 1..Len(log) : log[i][1] = "open" => ReleasedLater(i)

--------------------------------------------------------------------------
(* C17 *)

\* The positions of the log that read an smaps file / write a clear_refs file.
ReadsAt == {i \in 1..Len(log) : log[i][2] = "smaps"}
WritesAt == {i \in 1..Len(log) :
                log[i][2] = "clear_refs" /\ log[i][1] \in {"write", "writefail"}}

\* C17: within one GetStat call every read of an smaps file, failed ones
\* included, comes before every write to a clear_refs file, and a call that
\* resets returns the sum of the Referenced values the files held before it.
C17_ReadsBeforeWrites ==
    op = "GetStat" =>
        /\ \A i \in ReadsAt, j \in WritesAt : i < j
        /\ (err = NoErr /\ WritesAt # {}) =>
              ret = KB * SumOver([pid \in ListedPids |-> FileKB(pid)], ListedPids)

\* A call that read two smaps files and then reset both PIDs.
C17_Witness ==
    /\ op = "GetStat"
    /\ Cardinality(ReadsAt) = 2
    /\ Cardinality(WritesAt) = 2
    /\ ret = 2 * KB

--------------------------------------------------------------------------
(* C18 *)

\* C18: a GetStat call that fails reading the PID list or an smaps file
\* writes no reset-control file, also when the reset is due.
C18_FailedReadWritesNothing ==
    (/\ op = "GetStat"
     /\ err.kind \in {"ENOENT", "scan", "nopids", "EIO", "range"})
    => NoWrites /\ ret = 0

\* A call whose reset was due on a writable file and whose smaps read failed.
C18_Witness ==
    /\ op = "GetStat"
    /\ before.ResetInterval > 0
    /\ ResetDue(before.Cycles, before.ResetInterval)
    /\ err.kind = "EIO"
    /\ \E pid \in ListedPids : pre[pid].status = "ok"
    /\ clearRefs = pre

--------------------------------------------------------------------------
(* C19 *)

\* The first position of the PID list whose clear_refs write or close fails.
FailsAt == {i \in 1..Len(ListedSeq) :
               pre[ListedSeq[i]].status \in {"writeEIO", "closeEIO"}}

\* C19: when the reset step runs and the write or close of the i-th listed
\* PID fails, the earlier PIDs whose file could be opened have been written,
\* the later PIDs' files are as they were, and GetStat returns that error
\* with the value 0.
C19_ResetNotAtomic ==
    (/\ op = "GetStat"
     /\ before.ResetInterval > 0
     /\ ResetDue(before.Cycles, before.ResetInterval)
     /\ ResetReached
     /\ FailsAt # {})
    => LET i == CHOOSE k \in FailsAt : \A j \in FailsAt : k <= j
           kind == IF pre[ListedSeq[i]].status = "writeEIO"
                   THEN "write" ELSE "close"
       IN /\ err = Err(kind, ListedSeq[i])
          /\ ret = 0
          /\ \A j \in 1..(i - 1) :
                pre[ListedSeq[j]].status = "ok" =>
                    Wrote(ListedSeq[j]) /\ clearRefs[ListedSeq[j]].content = "1\n"
          /\ \A j \in (i + 1)..Len(ListedSeq) :
                clearRefs[ListedSeq[j]] = pre[ListedSeq[j]] /\ ~Wrote(ListedSeq[j])

\* A call that wrote the first PID's file, failed on the second and gave up
\* an estimate of 2 kB.
C19_Witness ==
    /\ op = "GetStat"
    /\ Len(ListedSeq) = 2
    /\ pre[ListedSeq[1]].content = "0\n"
    /\ clearRefs[ListedSeq[1]].content = "1\n"
    /\ err = Err("write", ListedSeq[2])
    /\ \A pid \in ListedPids : FileKB(pid) = 1
    /\ ret = 0

--------------------------------------------------------------------------
(* C12 *)

\* The file system as the last call's instance would see it if it were the
\* only one: the other cgroup and its processes do not exist.
SoloProcs ==
    [p \in Paths |-> IF p = before.CgroupCPUPath THEN procs[p] ELSE ProcsMissing]
SoloSmaps ==
    [pid \in PIDs |-> IF pid \in ListedPids THEN smaps[pid] ELSE SmapsMissing]
SoloClear ==
    [pid \in PIDs |-> IF pid \in ListedPids THEN pre[pid] ELSE ClearMissing]
Alone == GetStatBody(before, SoloProcs, SoloSmaps, SoloClear)

\* C12: with two instances on different cgroups with disjoint PID sets, a
\* GetStat call returns the value and error, makes the file accesses and
\* leaves its processes' clear_refs files as it would with the other instance
\* and its cgroup absent; the other processes' files are as they were, and
\* no call changes either instance's fields.
C12_InstancesIndependent ==
    (op = "GetStat" /\ Cardinality(DOMAIN w) = 2) =>
        /\ ret = Alone.val
        /\ err = Alone.err
        /\ log = Alone.log
        /\ \A pid \in PIDs :
              clearRefs[pid] = IF pid \in ListedPids THEN Alone.fs[pid]
                               ELSE pre[pid]
        /\ \A j \in DOMAIN w \ {self} : w[j] = built[j]

\* Instance "b" has sampled and reset its process after instance "a" reset
\* its own, each cgroup listing one process.
C12_Witness ==
    /\ op = "GetStat" /\ self = "b" /\ err = NoErr
    /\ calls["a"] > 0
    /\ ret = KB
    /\ \A p \in Paths : Len(procs[p].lines) = 1
    /\ \A pid \in PIDs : clearRefs[pid].content = "1\n"

--------------------------------------------------------------------------
(* Package machine: architecture gates *)

\* strings.Contains(s, sub)
Contains(s, sub) ==
    \E i \in 0..(Len(s) - Len(sub)) : SubSeq(s, i + 1, i + Len(sub)) = sub

isArm32(arch) == Contains(arch, <<"a", "r", "m">>)
isAArch64(arch) == Contains(arch, <<"a", "a", "r", "c", "h", "6", "4">>)
isSystemZ(arch) == Contains(arch, <<"3", "9", "0">>)
isRiscv64(arch) == Contains(arch, <<"r", "i", "s", "c", "v", "6", "4">>)
isMips64(arch) == Contains(arch, <<"m", "i", "p", "s", "6", "4">>)

getNumCores(h) == IF h.GOMAXPROCS < h.NumCPU THEN h.GOMAXPROCS ELSE h.NumCPU

--------------------------------------------------------------------------
(* GetTopology *)

\* The cores of one node directory: its cpus grouped by the core id read
\* from each, with the cpus of one core id as the core's threads.
Cores(node) ==
    {[Id |-> c, Threads |-> {x.cpu : x \in {y \in node.cpus : y.core = c}}] :
        c \in {x.core : x \in node.cpus}}

\* sysinfo.GetNodesInfo: an empty node listing is an error and so is a node
\* without meminfo; the count is that of the logical cpus of all nodes.
GetNodesInfo(fs) ==
    IF fs.nodes = <<>>
    THEN [nodes |-> <<>>, numCores |-> 0, err |-> "nonodes"]
    ELSE IF \E n \in DOMAIN fs.nodes : fs.nodes[n].meminfo # "ok"
    THEN [nodes |-> <<>>, numCores |-> 0, err |-> "meminfo"]
    ELSE [nodes |-> [n \in DOMAIN fs.nodes |->
                        [Id |-> fs.nodes[n].id, Cores |-> Cores(fs.nodes[n])]],
          numCores |-> SumOver([n \in DOMAIN fs.nodes |->
                                   Cardinality(fs.nodes[n].cpus)],
                               DOMAIN fs.nodes),
          err |-> "nil"]

\* Two slips of GetTopology: taking the runtime's count on every
\* architecture, and taking it on every architecture but s390.
GetTopologyRuntimeOnly(fs, h) ==
    [nodes |-> <<>>, numCores |-> getNumCores(h), err |-> "nil"]
GetTopologyGateInverted(fs, h) ==
    IF ~isSystemZ(h.machineArch)
    THEN [nodes |-> <<>>, numCores |-> getNumCores(h), err |-> "nil"]
    ELSE GetNodesInfo(fs)

GetTopology(fs, h) ==
    IF isSystemZ(h.machineArch)
    THEN [nodes |-> <<>>, numCores |-> getNumCores(h), err |-> "nil"]
    ELSE GetNodesInfo(fs)

CallGetTopology ==
    /\ LET r == GetTopology(sysFs, host)
       IN mres' = MRes("GetTopology", <<>>, r.numCores, r.err, r.nodes)
    /\ UNCHANGED <<w, procs, smaps, clearRefs, built, calls, op, self, args,
                   before, pre, ret, err, log, host, sysFs, freqFile, cpuInfo>>

\* The estimator's part of the state while the machine is examined: one
\* instance and no cgroup.
WssIdle ==
    /\ w = [i \in {"a"} |-> Wss("cgA", 0, 1)]
    /\ procs = [p \in Paths |-> ProcsMissing]
    /\ smaps = [pid \in PIDs |-> SmapsMissing]
    /\ clearRefs = [pid \in PIDs |-> ClearMissing]
    /\ built = w
    /\ calls = [i \in DOMAIN w |-> 0]
    /\ op = "none"
    /\ self = "a"
    /\ args = <<>>
    /\ before = w["a"]
    /\ pre = clearRefs
    /\ ret = 0
    /\ err = NoErr
    /\ log = <<>>

\* N node directories, node n with cores[n] core ids of T cpus each and
\* with or without meminfo.  Cpus are numbered as the kernel numbers
\* hyperthreads: the first thread of every core of every node, then the
\* second; core ids are unique in the node only (local) or on the machine.
Topology(N, cores, T, mem, local) ==
    LET first(n) == SumOver([m \in 1..(n - 1) |-> cores[m]], 1..(n - 1))
        total == SumOver(cores, 1..N)
    IN [n \in 1..N |->
          [id |-> n - 1,
           cpus |-> {[cpu |-> t * total + first(n) + c,
                      core |-> IF local THEN c ELSE first(n) + c] :
                        c \in 0..(cores[n] - 1), t \in 0..(T - 1)},
           meminfo |-> mem[n]]]

InitTopology ==
    /\ WssIdle
    /\ host \in {Host(a, mp, nc) : a \in {X86_64, S390X, AARCH64},
                                  mp \in 1..MaxProcs, nc \in 1..MaxProcs}
    /\ \E N \in 0..MaxNodes, T \in 1..MaxThreads, local \in BOOLEAN :
         \E cores \in [1..N -> 0..MaxCores], mem \in [1..N -> {"ok", "ENOENT"}] :
            sysFs = SysFs(Topology(N, cores, T, mem, local), NoHugePages, "node")
    /\ freqFile = NoFile
    /\ cpuInfo = <<>>
    /\ mres = MRes("none", <<>>, 0, "nil", <<>>)

SpecTopology == InitTopology /\ [][CallGetTopology]_vars

\* The (node, core id) pairs of the node directories.
Pairs == UNION {{<<n, x.core>> : x \in sysFs.nodes[n].cpus} :
                   n \in DOMAIN sysFs.nodes}
NoCpus == \A n \in DOMAIN sysFs.nodes : sysFs.nodes[n].cpus = {}
MemInfoReadable == \A n \in DOMAIN sysFs.nodes : sysFs.nodes[n].meminfo = "ok"

--------------------------------------------------------------------------
(* C13 *)

\* C13 as claimed: GetTopology returns an error whenever the node listing
\* is empty, and succeeds with count 0 when it is not and no node has cpus.
C13_EmptyListingIsError ==
    mres.op = "GetTopology" =>
        /\ sysFs.nodes = <<>> => mres.err # "nil"
        /\ (sysFs.nodes # <<>> /\ NoCpus) => (mres.err = "nil" /\ mres.val = 0)

\* C13, amended: on s390 GetTopology never fails and returns the runtime's
\* cpu count; elsewhere it returns an error whenever the node listing is
\* empty, and succeeds with count 0 when the listing is not empty, no node
\* has cpus and every node's meminfo is readable.
C13_EmptyListingIsErrorOffS390 ==
    mres.op = "GetTopology" =>
        IF isSystemZ(host.machineArch)
        THEN mres.err = "nil" /\ mres.val = getNumCores(host)
        ELSE /\ sysFs.nodes = <<>> => mres.err # "nil"
             /\ (sysFs.nodes # <<>> /\ NoCpus /\ MemInfoReadable) =>
                   (mres.err = "nil" /\ mres.val = 0
                    /\ \A n \in DOMAIN mres.list : mres.list[n].Cores = {})

\* Two nodes without cpus on x86_64: success with count 0.
C13_Witness ==
    /\ mres.op = "GetTopology"
    /\ host.machineArch = X86_64
    /\ Len(sysFs.nodes) = 2 /\ NoCpus /\ MemInfoReadable
    /\ mres.err = "nil" /\ mres.val = 0 /\ Len(mres.list) = 2

--------------------------------------------------------------------------
(* C14 *)

\* Two nodes of 6 cpus each, every node with 3 core ids of 2 cpus.
TwoBySix ==
    /\ Len(sysFs.nodes) = 2
    /\ \A n \in DOMAIN sysFs.nodes :
          /\ Cardinality(sysFs.nodes[n].cpus) = 6
          /\ Cardinality(Cores(sysFs.nodes[n])) = 3
          /\ \A c \in Cores(sysFs.nodes[n]) : Cardinality(c.Threads) = 2

--------------------------------------------------------------------------
(* GetClockSpeed *)

\* The contents of the max-frequency file: up to MaxFreqLen characters.
FreqChars == {"1", "2", "x", "\n"}
FreqContents == UNION {[1..n -> FreqChars] : n \in 0..MaxFreqLen}
FreqFiles ==
    {NoFile, File("EIO", <<>>)} \cup {File("ok", c) : c \in FreqContents}

\* A line of /proc/cpuinfo: its key and, as its value, a whole part with
\* a one-digit fraction or, when frac is "none", the whole part alone.
InfoLine(key, whole, frac) == [key |-> key, whole |-> whole, frac |-> frac]
InfoLines ==
    {InfoLine(k, n, f) : k \in {"cpu MHz", "clock", "model name"},
                         n \in 1..MaxMHz, f \in {"none", "5"}}
ProcInfos == {<<>>} \cup {<<l>> : l \in InfoLines}
                    \cup {<<l, m>> : l \in InfoLines, m \in InfoLines}

\* The value of a decimal digit.
Digit(c) == IF c = "1" THEN 1 ELSE IF c = "2" THEN 2 ELSE IF c = "5" THEN 5 ELSE 0

\* fmt.Sscanf(content, "%d", &maxFreq): the digits the content starts with,
\* read as a decimal number; n is 0 when it starts with none.
RECURSIVE scanDigits(_, _, _, _)
scanDigits(content, i, n, acc) ==
    IF i > Len(content) \/ content[i] \notin {"1", "2"}
    THEN [n |-> n, val |-> acc]
    ELSE scanDigits(content, i + 1, 1, acc * 10 + Digit(content[i]))
Sscanf(content) == scanDigits(content, 1, 0, 0)

\* cpuClockSpeedMHz.FindSubmatch(procInfo): the first line whose key is
\* "cpu MHz" or "clock" and whose value has a fraction; 0 when none has.
Matches(l) == l.key \in {"cpu MHz", "clock"} /\ l.frac # "none"
FindSubmatch(procInfo) ==
    IF \E i \in DOMAIN procInfo : Matches(procInfo[i])
    THEN CHOOSE i \in DOMAIN procInfo :
            /\ Matches(procInfo[i])
            /\ \A j \in 1..(i - 1) : ~Matches(procInfo[j])
    ELSE 0

\* The fallback of GetClockSpeed: the matched MHz value in kHz.
fromCpuInfo(procInfo) ==
    LET i == FindSubmatch(procInfo) IN
    IF i = 0 THEN [val |-> 0, err |-> "nomatch", used |-> "cpuinfo"]
    ELSE [val |-> procInfo[i].whole * KHzPerMHz
                    + Digit(procInfo[i].frac) * (KHzPerMHz \div 10),
          err |-> "nil", used |-> "cpuinfo"]

\* The slip of consulting /proc/cpuinfo first and the file as the fallback.
GetClockSpeedCpuInfoFirst(procInfo, h, f) ==
    LET arch == h.machineArch IN
    IF isMips64(arch) \/ isSystemZ(arch) \/ isAArch64(arch) \/ isArm32(arch)
       \/ isRiscv64(arch)
    THEN [val |-> 0, err |-> "nil", used |-> "none"]
    ELSE IF FindSubmatch(procInfo) # 0 THEN fromCpuInfo(procInfo)
    ELSE IF f.status # "ENOENT"
    THEN IF f.status # "ok" THEN [val |-> 0, err |-> "read", used |-> "file"]
         ELSE IF Sscanf(f.content).n # 1
         THEN [val |-> 0, err |-> "parse", used |-> "file"]
         ELSE [val |-> Sscanf(f.content).val, err |-> "nil", used |-> "file"]
    ELSE fromCpuInfo(procInfo)

GetClockSpeed(procInfo, h, f) ==
    LET arch == h.machineArch IN
    IF isMips64(arch) \/ isSystemZ(arch) \/ isAArch64(arch) \/ isArm32(arch)
       \/ isRiscv64(arch)
    THEN [val |-> 0, err |-> "nil", used |-> "none"]
    ELSE IF f.status # "ENOENT"
    THEN IF f.status # "ok" THEN [val |-> 0, err |-> "read", used |-> "file"]
         ELSE IF Sscanf(f.content).n # 1
         THEN [val |-> 0, err |-> "parse", used |-> "file"]
         ELSE [val |-> Sscanf(f.content).val, err |-> "nil", used |-> "file"]
    ELSE fromCpuInfo(procInfo)

CallGetClockSpeed ==
    /\ LET r == GetClockSpeed(cpuInfo, host, freqFile)
       IN mres' = MRes("GetClockSpeed", cpuInfo, r.val, r.err, <<r.used>>)
    /\ UNCHANGED <<w, procs, smaps, clearRefs, built, calls, op, self, args,
                   before, pre, ret, err, log, host, sysFs, freqFile, cpuInfo>>

InitClock ==
    /\ WssIdle
    /\ host \in {Host(a, 1, 1) : a \in Archs}
    /\ sysFs = SysFs(<<>>, NoHugePages, "node")
    /\ freqFile \in FreqFiles
    /\ cpuInfo \in ProcInfos
    /\ mres = MRes("none", <<>>, 0, "nil", <<>>)

SpecClock == InitClock /\ [][CallGetClockSpeed]_vars

--------------------------------------------------------------------------
(* C15 *)

\* The architectures on which GetClockSpeed reports no clock speed.
Gated == host.machineArch \in {S390X, AARCH64, ARMV7L, MIPS64, RISCV64}

\* The number a run of the digits 1 and 2 stands for.
RECURSIVE Number(_)
Number(ds) ==
    IF ds = <<>> THEN 0
    ELSE 10 * Number(SubSeq(ds, 1, Len(ds) - 1)) + (IF ds[Len(ds)] = "1" THEN 1 ELSE 2)

\* The digits the max-frequency file starts with.
LeadingDigits ==
    LET c == freqFile.content
        k == CHOOSE n \in 0..Len(c) :
                /\ \A i \in 1..n : c[i] \in {"1", "2"}
                /\ n < Len(c) => c[n + 1] \notin {"1", "2"}
    IN SubSeq(c, 1, k)

\* The cpuinfo text of the last call has a clock-speed line.
HasClockLine == \E i \in DOMAIN mres.arg : Matches(mres.arg[i])

--------------------------------------------------------------------------
(* GetHugePagesInfo *)

\* ioutil.ReadDir of the hugepages directory under dir.
ReadDir(fs, dir) ==
    IF fs.hugepages[dir].exists
    THEN [list |-> fs.hugepages[dir].entries, err |-> "nil"]
    ELSE [list |-> {}, err |-> "ENOENT"]

\* realSysFs.GetHugePagesInfo: the directory is built from the package's
\* nodeDir, not from the argument.
GetHugePagesInfo(nodePath, fs) == ReadDir(fs, fs.nodeDir)

CallGetHugePagesInfo(nodePath) ==
    /\ LET r == GetHugePagesInfo(nodePath, sysFs)
       IN mres' = MRes("GetHugePagesInfo", nodePath, 0, r.err, r.list)
    /\ UNCHANGED <<w, procs, smaps, clearRefs, built, calls, op, self, args,
                   before, pre, ret, err, log, host, sysFs, freqFile, cpuInfo>>

\* The hugepages directories a node directory can have.
HugePageDirs ==
    {NoDir} \cup {Dir(TRUE, e) : e \in SUBSET {"hugepages-2048kB", "hugepages-1048576kB"}}

InitHuge ==
    /\ WssIdle
    /\ host = Host(X86_64, 1, 1)
    /\ \E huge \in [NodeDirs -> HugePageDirs], dir \in NodeDirs :
          sysFs = SysFs(<<>>, huge, dir)
    /\ freqFile = NoFile
    /\ cpuInfo = <<>>
    /\ mres = MRes("none", <<>>, 0, "nil", <<>>)

SpecHuge ==
    InitHuge /\ [][\E nodePath \in NodeDirs : CallGetHugePagesInfo(nodePath)]_vars

--------------------------------------------------------------------------
(* C16 *)

\* C16: GetHugePagesInfo(nodePath) returns the entries of the hugepages
\* directory of nodePath, and an error with no list when nodePath has none.
C16_ListsGivenNode ==
    mres.op = "GetHugePagesInfo" =>
        IF sysFs.hugepages[mres.arg].exists
        THEN mres.err = "nil" /\ mres.list = sysFs.hugepages[mres.arg].entries
        ELSE mres.err # "nil" /\ mres.list = {}

====
